---- MODULE Spec2Model ----
(***************************************************************************)
(* The wheel-spin client: the React component App (src/unnamed/part_001,   *)
(* lines 1-442) and its helper sendTransaction (src/unnamed/part_000,      *)
(* lines 1-66).  Byte arrays are sequences over 0..255, hex strings are    *)
(* sequences of nibbles 0..15, base64 strings are sequences of sextets     *)
(* 0..63.  A JavaScript null byte array or string is the empty sequence.   *)
(*                                                                         *)
(* Every handler runs with the closure of the render that created it: the  *)
(* variable rendered is that render's snapshot of the React state.  A      *)
(* handler may be invoked whenever its own guard lets it run; the          *)
(* conditions under which the JSX shows each button restrict this further. *)
(*                                                                         *)
(* Spec is the transaction protocol: the readiness probe, rendering,       *)
(* connectWallet, spinWheel and initializeWheel with sendTransaction.  The *)
(* account reads started by the effect's checkWheelState and by            *)
(* checkAdminStatus stay unanswered in Spec: their answers write only      *)
(* isInitialized and isAdmin, which none of these handlers reads.          *)
(* SpecRead is the wheel-state reader: the probe, rendering,               *)
(* connectWallet, the effect's checkWheelState with its answer, and        *)
(* initializeWheel, which ends with a checkWheelState of its own.          *)
(* SpecInline is the App of lines 443-722, which signs inside spinWheel.   *)
(* SpecSpin is Spec without initializeWheel: the probe, rendering,         *)
(* connectWallet and spinWheel.                                            *)
(* SpecSpinFair is SpecSpin where what a spin awaits settles.              *)
(* SpecPage is the page as it is rendered: Connect Wallet and Spin Wheel   *)
(* are clicked only where the JSX shows them, with the effect's            *)
(* checkWheelState answered.                                               *)
(* SpecCodec is the encoding of the InitializeWheel data over lists of     *)
(* prizes and probabilities.                                               *)
(***************************************************************************)
EXTENDS Integers, Sequences, FiniteSets, TLC

\* ------------------------------------------------------------------ bounds
MaxSpins == 2
MaxConnects == 1
MaxInits == 1
\* how many wallet or endpoint answers of a run may be other than a success
MaxFaults == 1
\* how many times the Connect Wallet button is clicked on the rendered page
MaxClicks == 2
\* the longest prizes list and probabilities list given to the encoding
MaxPrizes == 2

\* ------------------------------------------------------- program constants
SecretLen == 32
CommitSpinTag == 1
RevealSpinTag == 2
InitializeWheelTag == 0
SigPrefixLen == 2

\* --------------------------------------------------------- byte utilities
\* the sum of w(j) * b[j] for j in lo..hi, by halves
RECURSIVE SumRange(_, _, _, _)
SumRange(b, lo, hi, weighted) ==
  IF lo > hi THEN 0
  ELSE IF lo = hi THEN (IF weighted THEN lo * b[lo] ELSE b[lo])
  ELSE LET mid == (lo + hi) \div 2
       IN  SumRange(b, lo, mid, weighted) + SumRange(b, mid + 1, hi, weighted)

SumBytes(b) == SumRange(b, 1, Len(b), FALSE)

WeightedSum(b) == SumRange(b, 1, Len(b), TRUE)

RECURSIVE Flatten(_)
Flatten(ss) == IF ss = <<>> THEN <<>> ELSE Head(ss) \o Flatten(Tail(ss))

\* A 32-byte digest standing for SHA-256: deterministic, not the identity,
\* and dependent on every byte and on the length of its input.
\* (the sums are bound as the elements of one-element sets, so that each
\* is computed once where ENABLED is evaluated as well)
Digest(b) ==
  CHOOSE d \in
    { [i \in 1..32 |-> (t.s2 + i * t.s1 + 7 * i + t.len) % 256] :
        t \in { [s1 |-> SumBytes(v), s2 |-> WeightedSum(v), len |-> Len(v)] :
                  v \in {b} } } : TRUE

\* crypto.subtle.digest('SHA-256', userSecret)
Sha256(b) == Digest(b)

\* PubkeyUtil.fromHex: two nibbles make one byte
FromHex(h) == [i \in 1..(Len(h) \div 2) |-> 16 * h[2 * i - 1] + h[2 * i]]

\* Buffer.from(bytes).toString('hex')
ToHex(b) ==
  [i \in 1..(2 * Len(b)) |->
     IF i % 2 = 1 THEN b[(i + 1) \div 2] \div 16 ELSE b[i \div 2] % 16]

\* Uint8Array.prototype.slice(n): the bytes from index n on
SliceFrom(b, n) == IF Len(b) <= n THEN <<>> ELSE SubSeq(b, n + 1, Len(b))

\* Buffer.from(text, 'base64'): four sextets make three bytes; a tail of
\* two sextets makes one byte, a tail of three makes two.
Base64Decode(t) ==
  LET full == Len(t) \div 4
      rest == Len(t) % 4
      n    == 3 * full + (IF rest = 2 THEN 1 ELSE IF rest = 3 THEN 2 ELSE 0)
      quad(k) == 4 * ((k - 1) \div 3)
  IN  [k \in 1..n |->
         LET q == quad(k)
             r == (k - 1) % 3
         IN  IF r = 0 THEN t[q + 1] * 4 + t[q + 2] \div 16
             ELSE IF r = 1 THEN (t[q + 2] % 16) * 16 + t[q + 3] \div 4
             ELSE (t[q + 3] % 4) * 64 + t[q + 4]]

\* The wallet's base64 encoding of its answer
Base64Encode(b) ==
  LET full == Len(b) \div 3
      rest == Len(b) % 3
      n    == 4 * full + (IF rest = 1 THEN 2 ELSE IF rest = 2 THEN 3 ELSE 0)
      at(j) == IF j <= Len(b) THEN b[j] ELSE 0
  IN  [k \in 1..n |->
         LET g == 3 * ((k - 1) \div 4)
             r == (k - 1) % 4
         IN  IF r = 0 THEN at(g + 1) \div 4
             ELSE IF r = 1 THEN (at(g + 1) % 4) * 16 + at(g + 2) \div 16
             ELSE IF r = 2 THEN (at(g + 2) % 16) * 4 + at(g + 3) \div 64
             ELSE at(g + 3) % 64]

\* -------------------------------------------------------- borsh (borsh-js)
\* a length prefix written most significant byte first
U32BE(n) ==
  <<(n \div 16777216) % 256, (n \div 65536) % 256, (n \div 256) % 256, n % 256>>

U32LE(n) ==
  <<n % 256, (n \div 256) % 256, (n \div 65536) % 256, (n \div 16777216) % 256>>

\* the u32 at 0-based offset off; a value of 2^31 or more, which no
\* buffer length reaches, is reported as 2^31 - 1
ReadU32(d, off) ==
  IF d[off + 4] >= 128 THEN 2147483647
  ELSE d[off + 1] + 256 * d[off + 2] + 65536 * d[off + 3] + 16777216 * d[off + 4]

BorshString(s) == U32LE(Len(s)) \o s

BorshStringArray(ss) ==
  U32LE(Len(ss)) \o Flatten([i \in 1..Len(ss) |-> BorshString(ss[i])])

BorshU8Array(bs) == U32LE(Len(bs)) \o bs

\* new Uint8Array(numbers): each element is taken modulo 256
ToUint8Array(ns) == [i \in 1..Len(ns) |-> ns[i] % 256]

\* The offset after n length-prefixed strings starting at off, or -1 when
\* the buffer is shorter than the lengths say.
RECURSIVE SkipStrings(_, _, _)
SkipStrings(d, off, n) ==
  IF n = 0 THEN off
  ELSE IF off + 4 > Len(d) THEN -1
  ELSE LET l == ReadU32(d, off)
       IN  IF l > Len(d) - off - 4 THEN -1
           ELSE SkipStrings(d, off + 4 + l, n - 1)

\* borsh.deserialize with the schema {initialized: bool, prizes: [string],
\* probabilities: [u8]}: ok is FALSE where borsh-js throws.
DeserializeWheelState(d) ==
  IF Len(d) < 5 THEN [ok |-> FALSE, initialized |-> FALSE]
  ELSE LET afterPrizes == SkipStrings(d, 5, ReadU32(d, 1))
       IN  IF afterPrizes < 0 \/ afterPrizes + 4 > Len(d)
             THEN [ok |-> FALSE, initialized |-> FALSE]
           ELSE IF ReadU32(d, afterPrizes) > Len(d) - afterPrizes - 4
             THEN [ok |-> FALSE, initialized |-> FALSE]
           ELSE [ok |-> TRUE, initialized |-> d[1] > 0]

\* n length-prefixed strings from the 0-based offset off on: the strings
\* and the offset after them; ok is FALSE where the buffer ends early
RECURSIVE ReadStrings(_, _, _)
ReadStrings(d, off, n) ==
  IF n = 0 THEN [ok |-> TRUE, off |-> off, strings |-> <<>>]
  ELSE IF off + 4 > Len(d) THEN [ok |-> FALSE, off |-> off, strings |-> <<>>]
  ELSE LET l == ReadU32(d, off)
       IN  IF l > Len(d) - off - 4
             THEN [ok |-> FALSE, off |-> off, strings |-> <<>>]
             ELSE LET rest == ReadStrings(d, off + 4 + l, n - 1)
                  IN  [ok |-> rest.ok, off |-> rest.off,
                       strings |-> <<SubSeq(d, off + 5, off + 4 + l)>>
                                     \o rest.strings]

\* The read direction of the schema {prizes: [string], probabilities: [u8]}
DecodeInit(d) ==
  LET fail == [ok |-> FALSE, prizes |-> <<>>, probabilities |-> <<>>]
  IN  IF Len(d) < 4 THEN fail
      ELSE LET ps == ReadStrings(d, 4, ReadU32(d, 0))
           IN  IF ~ps.ok \/ ps.off + 4 > Len(d) THEN fail
               ELSE LET n == ReadU32(d, ps.off)
                    IN  IF n > Len(d) - ps.off - 4 THEN fail
                        ELSE [ok |-> TRUE, prizes |-> ps.strings,
                              probabilities |->
                                SubSeq(d, ps.off + 5, ps.off + 4 + n)]

\* ------------------------------------------------ environment configuration
HexKey(n) == [i \in 1..64 |-> (n + i) % 16]

VITE_PROGRAM_ID == HexKey(1)
VITE_WHEEL_STATE_ACCOUNT == HexKey(2)
VITE_RECENT_BLOCKHASHES == HexKey(3)
VITE_SLOT_INFO == HexKey(4)

\* wheelData: the option of each prize, as its characters' codes
wheelData ==
  << <<80, 117, 98, 32, 35, 49, 50, 51, 32>>,
     <<76, 111, 115, 101, 114>>,
     <<76, 111, 115, 101, 114>> >>

\* The wallets a user may connect: getAddress answers with one of them.
Wallets ==
  { [address |-> "tb1qauthority", publicKey |-> HexKey(5)],
    [address |-> "tb1qplayer", publicKey |-> HexKey(6)] }

\* What sdk.readAccountInfo may answer for the wheel-state account: the
\* call rejects, there is no account, or the account holds one of these
\* byte strings (empty; a set flag and nothing more; the layout the
\* client's schema reads; the layout with the authority after the
\* initialized flag).
ClientLayout(flag) ==
  <<flag>> \o BorshStringArray(wheelData) \o BorshU8Array(<<34, 33, 33>>)

AuthorityLayout(flag) ==
  <<flag>> \o FromHex(HexKey(5)) \o BorshStringArray(wheelData)
    \o BorshU8Array(<<34, 33, 33>>)

AccountReads ==
  { [kind |-> "throw", data |-> <<>>],
    [kind |-> "null", data |-> <<>>],
    [kind |-> "data", data |-> <<>>],
    [kind |-> "data", data |-> <<1>>],
    [kind |-> "data", data |-> ClientLayout(0)],
    [kind |-> "data", data |-> ClientLayout(1)],
    [kind |-> "data", data |-> AuthorityLayout(1)] }

\* ------------------------------------------------- instructions (part_001)
Account(pubkey, is_signer, is_writable) ==
  [pubkey |-> pubkey, is_signer |-> is_signer, is_writable |-> is_writable]

NoInstruction == [program_id |-> <<>>, accounts |-> <<>>, data |-> <<>>]

\* the commit accounts in the order of initializeWheel's list
CommitAccountsSwapped(publicKey) ==
  << Account(FromHex(VITE_WHEEL_STATE_ACCOUNT), FALSE, TRUE),
     Account(FromHex(publicKey), TRUE, FALSE) >>

\* spinWheel: the commit instruction's account list
CommitAccounts(publicKey) ==
  << Account(FromHex(publicKey), TRUE, FALSE),
     Account(FromHex(VITE_WHEEL_STATE_ACCOUNT), FALSE, TRUE) >>

\* the commitment without its discriminant
CommitDataUntagged(commitment) == commitment

\* spinWheel: Buffer.concat([[1], commitment])
CommitData(commitment) == <<CommitSpinTag>> \o commitment

CommitInstruction(publicKey, commitment) ==
  [program_id |-> FromHex(VITE_PROGRAM_ID),
   accounts   |-> CommitAccounts(publicKey),
   data       |-> CommitData(commitment)]

\* spinWheel: the reveal instruction's account list
RevealAccounts(publicKey) ==
  << Account(FromHex(publicKey), TRUE, FALSE),
     Account(FromHex(VITE_WHEEL_STATE_ACCOUNT), FALSE, TRUE),
     Account(FromHex(VITE_RECENT_BLOCKHASHES), FALSE, FALSE),
     Account(FromHex(VITE_SLOT_INFO), FALSE, FALSE) >>

\* a reveal that carries the digest in place of the secret
RevealDataDigest(userSecret) == <<RevealSpinTag>> \o Sha256(userSecret)

\* spinWheel: Buffer.concat([[2], userSecret])
RevealData(userSecret) == <<RevealSpinTag>> \o userSecret

RevealInstruction(publicKey, userSecret) ==
  [program_id |-> FromHex(VITE_PROGRAM_ID),
   accounts   |-> RevealAccounts(publicKey),
   data       |-> RevealData(userSecret)]

\* initializeWheel: wheel account first, authority second
InitAccounts(publicKey) ==
  << Account(FromHex(VITE_WHEEL_STATE_ACCOUNT), FALSE, TRUE),
     Account(FromHex(publicKey), TRUE, TRUE) >>

\* initializeWheel: [0] followed by the borsh struct {prizes, probabilities}
InitData(prizes, probabilities) ==
  <<InitializeWheelTag>> \o BorshStringArray(prizes)
    \o BorshU8Array(ToUint8Array(probabilities))

\* an initialize instruction whose probabilities are three times 33
InitInstructionThirds(publicKey) ==
  [program_id |-> FromHex(VITE_PROGRAM_ID),
   accounts   |-> InitAccounts(publicKey),
   data       |-> InitData(wheelData, <<33, 33, 33>>)]

InitInstruction(publicKey) ==
  [program_id |-> FromHex(VITE_PROGRAM_ID),
   accounts   |-> InitAccounts(publicKey),
   data       |-> InitData(wheelData, <<34, 33, 33>>)]

\* --------------------------------------------- sendTransaction (part_000)
SerializeAccount(a) ==
  a.pubkey \o <<IF a.is_signer THEN 1 ELSE 0, IF a.is_writable THEN 1 ELSE 0>>

SerializeInstruction(ins) ==
  ins.program_id \o <<Len(ins.accounts)>>
    \o Flatten([i \in 1..Len(ins.accounts) |-> SerializeAccount(ins.accounts[i])])
    \o U32LE(Len(ins.data)) \o ins.data

SerializeMessage(m) ==
  <<Len(m.signers)>> \o Flatten(m.signers) \o <<Len(m.instructions)>>
    \o Flatten([i \in 1..Len(m.instructions) |->
                  SerializeInstruction(m.instructions[i])])

\* MessageUtil.hash(messageObj)
MessageHash(m) == Digest(SerializeMessage(m))

\* a message that names the program as its signer
MessageObjProgramSigner(publicKey, instruction) ==
  [signers |-> <<instruction.program_id>>, instructions |-> <<instruction>>]

\* const messageObj = {signers: [fromHex(publicKey)], instructions: [instruction]}
MessageObj(publicKey, instruction) ==
  [signers |-> <<FromHex(publicKey)>>, instructions |-> <<instruction>>]

\* a payload whose message is the text 'Spin the wheel!'
SignPayloadLiteral(walletAddress, messageObj) ==
  [message |-> <<83, 112, 105, 110, 32, 116, 104, 101, 32, 119, 104, 101,
                 101, 108, 33>>,
   address |-> walletAddress]

\* sendTransaction up to its call of signMessage: the payload handed to
\* the wallet
\* (the message and its hash are bound as the elements of one-element
\* sets, so that each is computed once where ENABLED is evaluated as well)
SignPayload(walletAddress, messageObj) ==
  CHOOSE payload \in
    { [message |-> ToHex(hash), address |-> walletAddress] :
        hash \in { MessageHash(m) : m \in {messageObj} } } : TRUE

\* the decoded response as it came
NormalizeSignatureRaw(response) == Base64Decode(response)

\* onFinish: new Uint8Array(Buffer.from(response, 'base64')).slice(2)
NormalizeSignature(response) == SliceFrom(Base64Decode(response), SigPrefixLen)

\* The 64 bytes a wallet signs for a payload
WalletSignature(payload) ==
  [i \in 1..64 |->
     (16 * payload.message[((i - 1) % Len(payload.message)) + 1] + i) % 256]

\* What the wallet boundary may do with a signing request: call onFinish
\* with a response (a prefixed signature, a signature without the prefix,
\* a single byte, or the empty string), call onCancel, or call neither.
GoodAnswer(payload) ==
  [kind |-> "finish",
   response |-> Base64Encode(<<2, 0>> \o WalletSignature(payload))]

BadAnswers(payload) ==
  { [kind |-> "finish", response |-> Base64Encode(WalletSignature(payload))],
    [kind |-> "finish", response |-> Base64Encode(<<2>>)],
    [kind |-> "finish", response |-> <<>>],
    [kind |-> "cancel", response |-> <<>>],
    [kind |-> "silent", response |-> <<>>] }

\* an onCancel that returns instead of throwing, and no null check
SigningThrowsOnEmptyOnly(answer) ==
  answer.kind = "finish" /\ answer.response = <<>>

\* signMessage and the check after it: sendTransaction throws when onFinish
\* got an empty response, when onCancel ran, or when signature is still null
SigningThrows(answer) ==
  \/ answer.kind = "cancel"
  \/ answer.kind = "silent"
  \/ answer.kind = "finish" /\ answer.response = <<>>

\* onFinish(response): the responses one invocation has been handed
Heard(log, answer) ==
  IF answer.kind = "finish" THEN Append(log, answer.response) ELSE log

\* const tx = {version: 0, signatures: [signature], message: messageObj}
BuildTx(messageObj, answer) ==
  [version    |-> 0,
   signatures |-> <<NormalizeSignature(answer.response)>>,
   message    |-> messageObj]

\* a submitter that sends again
SubmitTwice(log, tx) == Append(Append(log, tx), tx)

\* return await sdk.sendTransaction(tx): the transactions the endpoint has
\* received from one invocation
Submit(log, tx) == Append(log, tx)

\* ------------------------------------------------------------------- state
VARIABLES
  sdk,            \* useState(null): "null" or the connection "arch"
  walletAddress,  \* useState(null): "" is null
  publicKey,      \* useState(null): hex, <<>> is null
  isAdmin,        \* useState(false)
  isInitialized,  \* useState(false)
  wheelState,     \* useState({isSpinning, currentPrize, prizeNumber})
  rendered,       \* the state as of the last render: what the handlers see
  probe,          \* testRpcEndpoint: "pending" or "done"
  wheelRead,      \* what sdk.readAccountInfo last answered to checkWheelState
  codec,          \* an InitializeWheel payload on its way through the encoding
  connects,       \* the invocations of connectWallet still running
  nConnects,      \* invocations of connectWallet so far
  checks,         \* checkWheelState reads started by the effect, unanswered
  spins,          \* the invocations of spinWheel that passed the guard
  inits,          \* the invocations of initializeWheel still running
  nInits,         \* invocations of initializeWheel so far that passed the guard
  animTimers,     \* spins whose 10 s animation timer is pending
  rng,            \* calls of crypto.getRandomValues so far
  faults          \* wallet and endpoint answers so far that were no success

vars ==
  <<sdk, walletAddress, publicKey, isAdmin, isInitialized, wheelState,
    rendered, probe, wheelRead, codec, connects, nConnects, checks, spins, inits,
    nInits, animTimers, rng, faults>>

\* no payload is being encoded
NoCodec ==
  [pc |-> "idle", prizes |-> <<>>, probabilities |-> <<>>, data |-> <<>>,
   decoded |-> [ok |-> FALSE, prizes |-> <<>>, probabilities |-> <<>>]]

\* the counters of the invocations and of the faults
counters == <<nConnects, nInits, rng, faults>>

reactState == <<sdk, walletAddress, publicKey, isAdmin, isInitialized, wheelState>>

Snapshot ==
  [sdk |-> sdk, walletAddress |-> walletAddress, publicKey |-> publicKey,
   isAdmin |-> isAdmin, isInitialized |-> isInitialized,
   wheelState |-> wheelState]

InitApp ==
  /\ sdk = "null"
  /\ walletAddress = ""
  /\ publicKey = <<>>
  /\ isAdmin = FALSE
  /\ isInitialized = FALSE
  /\ wheelState = [isSpinning |-> FALSE, currentPrize |-> <<>>, prizeNumber |-> 0]
  /\ rendered = Snapshot
  /\ probe = "pending"
  /\ wheelRead = [kind |-> "none", data |-> <<>>]
  /\ connects = <<>>
  /\ nConnects = 0
  /\ checks = 0
  /\ spins = <<>>
  /\ inits = <<>>
  /\ nInits = 0
  /\ animTimers = {}
  /\ rng = 0
  /\ faults = 0

Init == InitApp /\ codec = NoCodec

RemoveAt(q, i) == SubSeq(q, 1, i - 1) \o SubSeq(q, i + 1, Len(q))

\* ------------------------------------------------------- SDK and rendering
\* testRpcEndpoint / initSDK: the probe answers; setSdk only on result = true
ProbeAnswer ==
  /\ probe = "pending"
  /\ probe' = "done"
  /\ \E ready \in BOOLEAN : sdk' = IF ready THEN "arch" ELSE sdk
  /\ UNCHANGED <<walletAddress, publicKey, isAdmin, isInitialized, wheelState,
                 rendered, wheelRead, codec, connects, checks, spins, inits,
                 animTimers, counters>>

\* useEffect(..., [sdk, publicKey]): runs after a render that changed either
EffectFires(old, new) ==
  /\ new.sdk # "null"
  /\ new.publicKey # <<>>
  /\ (old.sdk # new.sdk \/ old.publicKey # new.publicKey)

\* React renders the pending state updates; the effect then calls
\* checkWheelState, which starts sdk.readAccountInfo
Render ==
  /\ rendered # Snapshot
  /\ rendered' = Snapshot
  /\ checks' = IF EffectFires(rendered, Snapshot) THEN checks + 1 ELSE checks
  /\ UNCHANGED <<reactState, probe, codec, wheelRead, connects, spins, inits,
                 animTimers, counters>>

\* a reader that takes every account with data for an initialized wheel
WheelStateInitializedAnyData(read) == read.kind = "data"

\* checkWheelState after sdk.readAccountInfo settled: the value set by
\* setIsInitialized
WheelStateInitialized(read) ==
  IF read.kind = "data"
    THEN LET w == DeserializeWheelState(read.data)
         IN  w.ok /\ w.initialized
    ELSE FALSE

\* The read of a checkWheelState started by the effect settles
CheckWheelStateAnswer ==
  /\ checks > 0
  /\ checks' = checks - 1
  /\ \E read \in AccountReads :
       /\ wheelRead' = read
       /\ isInitialized' = WheelStateInitialized(read)
  /\ UNCHANGED <<sdk, walletAddress, publicKey, isAdmin, wheelState, rendered,
                 probe, codec, connects, spins, inits, animTimers, counters>>

\* ------------------------------------------------------------ connectWallet
connectWallet ==
  /\ nConnects < MaxConnects
  /\ nConnects' = nConnects + 1
  /\ connects' = Append(connects,
       [pc |-> "getAddress", sdk |-> rendered.sdk,
        publicKey |-> rendered.publicKey])
  /\ UNCHANGED <<reactState, rendered, probe, codec, wheelRead, checks, spins,
                 inits, nInits, animTimers, rng, faults>>

\* checkAdminStatus returns false at once without an sdk or a public key
AdminCheckReads(c) == c.sdk # "null" /\ c.publicKey # <<>>

\* getAddress settles: onFinish stores the address and the public key,
\* onCancel only logs; then checkAdminStatus runs with the closure's values
GetAddressAnswer(i) ==
  /\ connects[i].pc = "getAddress"
  /\ \/ /\ \/ \E w \in Wallets :
                /\ walletAddress' = w.address
                /\ publicKey' = w.publicKey
           \/ UNCHANGED <<walletAddress, publicKey>>
        /\ IF AdminCheckReads(connects[i])
             THEN /\ connects' = [connects EXCEPT ![i].pc = "adminRead"]
                  /\ UNCHANGED isAdmin
             ELSE /\ connects' = RemoveAt(connects, i)
                  /\ isAdmin' = FALSE
     \/ \* getAddress rejects: the catch logs, nothing is set
        /\ connects' = RemoveAt(connects, i)
        /\ UNCHANGED <<walletAddress, publicKey, isAdmin>>
  /\ UNCHANGED <<sdk, isInitialized, wheelState, rendered, probe, codec,
                 wheelRead, checks, spins, inits, animTimers, counters>>

\* checkAdminStatus: bytes 1..32 of the account data, as hex, equal publicKey
IsAuthority(read, pk) ==
  /\ read.kind = "data"
  /\ ToHex(SubSeq(read.data, 2, IF Len(read.data) < 33 THEN Len(read.data) ELSE 33)) = pk

AdminReadAnswer(i) ==
  /\ connects[i].pc = "adminRead"
  /\ connects' = RemoveAt(connects, i)
  /\ \E read \in AccountReads : isAdmin' = IsAuthority(read, connects[i].publicKey)
  /\ UNCHANGED <<sdk, walletAddress, publicKey, isInitialized, wheelState,
                 rendered, probe, codec, wheelRead, checks, spins, inits,
                 animTimers, counters>>

\* ---------------------------------------------------------------- spinWheel
\* the guard without its last disjunct
SpinGuardNoSpinning(r) ==
  /\ r.sdk # "null"
  /\ r.walletAddress # ""
  /\ r.publicKey # <<>>

\* if (!sdk || !walletAddress || !publicKey || wheelState.isSpinning) return
SpinGuard(r) ==
  /\ r.sdk # "null"
  /\ r.walletAddress # ""
  /\ r.publicKey # <<>>
  /\ ~r.wheelState.isSpinning

\* crypto.getRandomValues(new Uint8Array(32)): the n-th draw of the
\* generator; draws are taken to be pairwise distinct
RandomValues(n) ==
  [i \in 1..SecretLen |-> IF i = 1 THEN n % 256 ELSE (37 * i + 11) % 256]

\* a secret drawn once and kept for the session
UserSecretOnce(draws) == RandomValues(1)

\* const userSecret = crypto.getRandomValues(...): a draw of its own for
\* each invocation; draws counts the draws made so far, this one included
UserSecret(draws) == RandomValues(draws)

InFlight(s) == s.pc \notin {"failed", "resolved"}

\* The answers the wallet may give to a request, within the fault budget
WalletAnswers(payload) ==
  {GoodAnswer(payload)} \cup (IF faults < MaxFaults THEN BadAnswers(payload) ELSE {})

\* The click: the guard, then setWheelState(isSpinning: true), which React
\* renders before the next event, then getRandomValues and the call of
\* crypto.subtle.digest.  An invocation that fails the guard returns and
\* changes nothing.
spinWheel ==
  /\ SpinGuard(rendered)
  /\ Len(spins) < MaxSpins
  /\ wheelState' = [wheelState EXCEPT !.isSpinning = TRUE]
  /\ rendered' = [rendered EXCEPT !.wheelState = wheelState']
  /\ rng' = rng + 1
  /\ spins' = Append(spins,
       [pc |-> "digest",
        sdk |-> rendered.sdk,
        walletAddress |-> rendered.walletAddress,
        publicKey |-> rendered.publicKey,
        userSecret |-> UserSecret(rng + 1),
        commitment |-> <<>>,
        commitInstruction |-> NoInstruction,
        revealInstruction |-> NoInstruction,
        reqs |-> <<>>,
        responses |-> <<>>,
        sent |-> <<>>,
        commitAnswer |-> "", revealAnswer |-> "",
        commitReturned |-> FALSE, delayElapsed |-> FALSE,
        prizeSet |-> FALSE, failedAt |-> ""])
  /\ UNCHANGED <<sdk, walletAddress, publicKey, isAdmin, isInitialized, probe,
                 codec, wheelRead, connects, nConnects, checks, inits, nInits,
                 animTimers, faults>>

\* a catch that only logs
OnSpinErrorLogOnly(ws) == ws

\* a catch that puts the whole wheel state back to its initial value
OnSpinErrorResets(ws) ==
  [isSpinning |-> FALSE, currentPrize |-> <<>>, prizeNumber |-> 0]

\* catch (err): setWheelState(prev => ({...prev, isSpinning: false}))
OnSpinError(ws) == [ws EXCEPT !.isSpinning = FALSE]

\* The digest resolves: the commit instruction is built and sendTransaction
\* asks the wallet to sign the hash of its message
SpinCommit(i) ==
  /\ spins[i].pc = "digest"
  /\ LET commitment == Sha256(spins[i].userSecret)
         instruction == CommitInstruction(spins[i].publicKey, commitment)
         payload == SignPayload(spins[i].walletAddress,
                                MessageObj(spins[i].publicKey, instruction))
     IN  spins' = [spins EXCEPT ![i].pc = "commitSign",
                                ![i].commitment = commitment,
                                ![i].commitInstruction = instruction,
                                ![i].reqs = Append(@, payload)]
  /\ UNCHANGED <<reactState, rendered, probe, codec, wheelRead, connects,
                 checks, inits, animTimers, counters>>

\* crypto.subtle.digest throws or rejects: the catch runs
SpinDigestFails(i) ==
  /\ spins[i].pc = "digest"
  /\ faults < MaxFaults
  /\ faults' = faults + 1
  /\ spins' = [spins EXCEPT ![i].pc = "failed", ![i].failedAt = "digest"]
  /\ wheelState' = OnSpinError(wheelState)
  /\ UNCHANGED <<sdk, walletAddress, publicKey, isAdmin, isInitialized,
                 rendered, probe, codec, wheelRead, connects, nConnects,
                 checks, inits, nInits, animTimers, rng>>

\* The wallet settles a signing request of spin i: sendTransaction throws
\* and the catch of spinWheel runs, or sendTransaction builds the
\* transaction and hands it to sdk.sendTransaction
SpinWalletAnswer(i) ==
  /\ spins[i].pc \in {"commitSign", "revealSign"}
  /\ LET commit == spins[i].pc = "commitSign"
         payload == spins[i].reqs[Len(spins[i].reqs)]
         good == GoodAnswer(payload)
         messageObj == MessageObj(spins[i].publicKey,
                         IF commit THEN spins[i].commitInstruction
                                   ELSE spins[i].revealInstruction)
     IN  \E a \in WalletAnswers(payload) :
           /\ faults' = IF a = good THEN faults ELSE faults + 1
           /\ LET t == [spins[i] EXCEPT !.responses = Heard(@, a)]
                  s == IF commit THEN [t EXCEPT !.commitAnswer = a.kind]
                                 ELSE [t EXCEPT !.revealAnswer = a.kind]
              IN  IF SigningThrows(a)
                    THEN /\ spins' = [spins EXCEPT
                                        ![i] = [s EXCEPT !.pc = "failed",
                                                         !.failedAt = spins[i].pc]]
                         /\ wheelState' = OnSpinError(wheelState)
                    ELSE /\ spins' = [spins EXCEPT
                                        ![i] = [s EXCEPT
                                          !.pc = IF commit THEN "commitSubmit"
                                                           ELSE "revealSubmit",
                                          !.sent = Submit(@, BuildTx(messageObj, a))]]
                         /\ UNCHANGED wheelState
  /\ UNCHANGED <<sdk, walletAddress, publicKey, isAdmin, isInitialized,
                 rendered, probe, codec, wheelRead, connects, nConnects,
                 checks, inits, nInits, animTimers, rng>>

\* sdk.sendTransaction returns the commit's transaction id: the 2 s timer
\* is set
SpinCommitReturns(i) ==
  /\ spins[i].pc = "commitSubmit"
  /\ spins' = [spins EXCEPT ![i].pc = "commitWait", ![i].commitReturned = TRUE]
  /\ UNCHANGED <<reactState, rendered, probe, codec, wheelRead, connects,
                 checks, inits, animTimers, counters>>

\* sdk.sendTransaction rejects (commit or reveal): the catch runs
SpinSubmitFails(i) ==
  /\ spins[i].pc \in {"commitSubmit", "revealSubmit"}
  /\ faults < MaxFaults
  /\ faults' = faults + 1
  /\ spins' = [spins EXCEPT ![i].pc = "failed", ![i].failedAt = spins[i].pc]
  /\ wheelState' = OnSpinError(wheelState)
  /\ UNCHANGED <<sdk, walletAddress, publicKey, isAdmin, isInitialized,
                 rendered, probe, codec, wheelRead, connects, nConnects,
                 checks, inits, nInits, animTimers, rng>>

\* a reveal step that does not await the commit's sendTransaction
RevealMayStartUnawaited(s) == s.pc \in {"commitSubmit", "commitWait"}

\* The state in which the reveal step of spinWheel starts: the commit
\* submission has returned and the 2 s timer is what remains
RevealMayStart(s) == s.pc = "commitWait"

\* The 2 s timer fires: the reveal instruction is built and sendTransaction
\* asks the wallet to sign the hash of its message
SpinReveal(i) ==
  /\ RevealMayStart(spins[i])
  /\ LET instruction == RevealInstruction(spins[i].publicKey, spins[i].userSecret)
         payload == SignPayload(spins[i].walletAddress,
                                MessageObj(spins[i].publicKey, instruction))
     IN  spins' = [spins EXCEPT ![i].pc = "revealSign",
                                ![i].delayElapsed = TRUE,
                                ![i].revealInstruction = instruction,
                                ![i].reqs = Append(@, payload)]
  /\ UNCHANGED <<reactState, rendered, probe, codec, wheelRead, connects,
                 checks, inits, animTimers, counters>>

\* an update that stores the drawn number and leaves currentPrize as it is
WithOutcomeNumberOnly(ws, prizeNumber) ==
  [ws EXCEPT !.prizeNumber = prizeNumber]

\* an update that also stops the wheel as soon as the prize is known
WithOutcomeStops(ws, prizeNumber) ==
  [isSpinning |-> FALSE, prizeNumber |-> prizeNumber,
   currentPrize |-> wheelData[prizeNumber + 1]]

\* setWheelState(prev => ({...prev, prizeNumber,
\*                          currentPrize: wheelData[prizeNumber].option}))
WithOutcome(ws, prizeNumber) ==
  [ws EXCEPT !.prizeNumber = prizeNumber,
             !.currentPrize = wheelData[prizeNumber + 1]]

\* a reveal step that draws the prize without awaiting sendTransaction
SpinRevealReturnsUnawaited(i) ==
  /\ spins[i].pc \in {"revealSign", "revealSubmit"}
  /\ \E prizeNumber \in 0..(Len(wheelData) - 1) :
       wheelState' = WithOutcome(wheelState, prizeNumber)
  /\ spins' = [spins EXCEPT ![i].pc = "resolved", ![i].prizeSet = TRUE]
  /\ animTimers' = animTimers \cup {i}
  /\ UNCHANGED <<sdk, walletAddress, publicKey, isAdmin, isInitialized,
                 rendered, probe, codec, wheelRead, connects, checks, inits,
                 counters>>

\* sdk.sendTransaction returns the reveal's transaction id: the prize is
\* drawn and set, and the 10 s animation timer is set
SpinRevealReturns(i) ==
  /\ spins[i].pc = "revealSubmit"
  /\ \E prizeNumber \in 0..(Len(wheelData) - 1) :
       wheelState' = WithOutcome(wheelState, prizeNumber)
  /\ spins' = [spins EXCEPT ![i].pc = "resolved", ![i].prizeSet = TRUE]
  /\ animTimers' = animTimers \cup {i}
  /\ UNCHANGED <<sdk, walletAddress, publicKey, isAdmin, isInitialized,
                 rendered, probe, codec, wheelRead, connects, checks, inits,
                 counters>>

\* a timer callback that stops the sound and leaves isSpinning as it is
AnimationTimerKeepsSpinning(i) ==
  /\ i \in animTimers
  /\ animTimers' = animTimers \ {i}
  /\ UNCHANGED <<reactState, rendered, probe, codec, wheelRead, connects,
                 checks, spins, inits, counters>>

\* The 10 s timer fires: setWheelState(prev => ({...prev, isSpinning: false}))
AnimationTimer(i) ==
  /\ i \in animTimers
  /\ animTimers' = animTimers \ {i}
  /\ wheelState' = [wheelState EXCEPT !.isSpinning = FALSE]
  /\ UNCHANGED <<sdk, walletAddress, publicKey, isAdmin, isInitialized,
                 rendered, probe, codec, wheelRead, connects, checks, spins,
                 inits, counters>>

\* ---------------------------------------------------------- initializeWheel
\* the guard without its first disjunct
InitGuardNoSdk(r) ==
  /\ r.walletAddress # ""
  /\ r.publicKey # <<>>

\* if (!sdk || !walletAddress || !publicKey) return
InitGuard(r) ==
  /\ r.sdk # "null"
  /\ r.walletAddress # ""
  /\ r.publicKey # <<>>

\* The click: the guard, then the first sdk.readAccountInfo
initializeWheel ==
  /\ InitGuard(rendered)
  /\ nInits < MaxInits
  /\ nInits' = nInits + 1
  /\ inits' = Append(inits,
       [pc |-> "read",
        sdk |-> rendered.sdk,
        walletAddress |-> rendered.walletAddress,
        publicKey |-> rendered.publicKey,
        instruction |-> NoInstruction,
        reqs |-> <<>>,
        responses |-> <<>>,
        sent |-> <<>>])
  /\ UNCHANGED <<reactState, rendered, probe, codec, wheelRead, connects,
                 nConnects, checks, spins, animTimers, rng, faults>>

\* The first read settles: a rejection is rethrown by the catch; otherwise
\* the instruction is built and sendTransaction asks the wallet to sign
InitBuild(i) ==
  /\ inits[i].pc = "read"
  /\ \/ /\ faults < MaxFaults
        /\ faults' = faults + 1
        /\ inits' = RemoveAt(inits, i)
     \/ LET instruction == InitInstruction(inits[i].publicKey)
            payload == SignPayload(inits[i].walletAddress,
                                   MessageObj(inits[i].publicKey, instruction))
        IN  /\ inits' = [inits EXCEPT ![i].pc = "sign",
                                      ![i].instruction = instruction,
                                      ![i].reqs = Append(@, payload)]
            /\ UNCHANGED faults
  /\ UNCHANGED <<reactState, rendered, probe, codec, wheelRead, connects,
                 nConnects, checks, spins, nInits, animTimers, rng>>

\* The wallet settles the signing request of initializeWheel: sendTransaction
\* throws and the catch rethrows, or the transaction is handed to
\* sdk.sendTransaction
InitWalletAnswer(i) ==
  /\ inits[i].pc = "sign"
  /\ LET payload == inits[i].reqs[Len(inits[i].reqs)]
         good == GoodAnswer(payload)
         messageObj == MessageObj(inits[i].publicKey, inits[i].instruction)
     IN  \E a \in WalletAnswers(payload) :
           /\ faults' = IF a = good THEN faults ELSE faults + 1
           /\ IF SigningThrows(a)
                THEN inits' = RemoveAt(inits, i)
                ELSE inits' = [inits EXCEPT
                                 ![i].pc = "submit",
                                 ![i].responses = Heard(@, a),
                                 ![i].sent = Submit(@, BuildTx(messageObj, a))]
  /\ UNCHANGED <<reactState, rendered, probe, codec, wheelRead, connects,
                 nConnects, checks, spins, nInits, animTimers, rng>>

\* sdk.sendTransaction returns the transaction id; after the 2 s timer
\* sdk.getProcessedTransaction is asked for its status
InitSubmitReturns(i) ==
  /\ inits[i].pc = "submit"
  /\ inits' = [inits EXCEPT ![i].pc = "status"]
  /\ UNCHANGED <<reactState, rendered, probe, codec, wheelRead, connects,
                 checks, spins, animTimers, counters>>

\* sdk.sendTransaction or sdk.getProcessedTransaction rejects: the catch
\* rethrows
InitRpcFails(i) ==
  /\ inits[i].pc \in {"submit", "status"}
  /\ faults < MaxFaults
  /\ faults' = faults + 1
  /\ inits' = RemoveAt(inits, i)
  /\ UNCHANGED <<reactState, rendered, probe, codec, wheelRead, connects,
                 nConnects, checks, spins, nInits, animTimers, rng>>

\* The status arrives (it is only logged): checkWheelState starts its read
InitStatusReturns(i) ==
  /\ inits[i].pc = "status"
  /\ inits' = [inits EXCEPT ![i].pc = "check"]
  /\ UNCHANGED <<reactState, rendered, probe, codec, wheelRead, connects,
                 checks, spins, animTimers, counters>>

\* checkWheelState's read settles: setIsInitialized, and the handler ends
InitCheckAnswer(i) ==
  /\ inits[i].pc = "check"
  /\ inits' = RemoveAt(inits, i)
  /\ \E read \in AccountReads :
       /\ wheelRead' = read
       /\ isInitialized' = WheelStateInitialized(read)
  /\ UNCHANGED <<sdk, walletAddress, publicKey, isAdmin, wheelState, rendered,
                 probe, codec, connects, checks, spins, animTimers, counters>>

\* ----------------------------------------------------------- specification
Next ==
  \/ ProbeAnswer
  \/ Render
  \/ connectWallet
  \/ \E i \in 1..Len(connects) : GetAddressAnswer(i)
  \/ spinWheel
  \/ \E i \in 1..Len(spins) : SpinCommit(i)
  \/ \E i \in 1..Len(spins) : SpinDigestFails(i)
  \/ \E i \in 1..Len(spins) : SpinWalletAnswer(i)
  \/ \E i \in 1..Len(spins) : SpinCommitReturns(i)
  \/ \E i \in 1..Len(spins) : SpinSubmitFails(i)
  \/ \E i \in 1..Len(spins) : SpinReveal(i)
  \/ \E i \in 1..Len(spins) : SpinRevealReturns(i)
  \/ \E i \in 1..Len(spins) : AnimationTimer(i)
  \/ initializeWheel
  \/ \E i \in 1..Len(inits) : InitBuild(i)
  \/ \E i \in 1..Len(inits) : InitWalletAnswer(i)
  \/ \E i \in 1..Len(inits) : InitSubmitReturns(i)
  \/ \E i \in 1..Len(inits) : InitRpcFails(i)
  \/ \E i \in 1..Len(inits) : InitStatusReturns(i)
  \/ \E i \in 1..Len(inits) : InitCheckAnswer(i)

Spec == Init /\ [][Next]_vars

NextSpin ==
  \/ ProbeAnswer
  \/ Render
  \/ connectWallet
  \/ \E i \in 1..Len(connects) : GetAddressAnswer(i)
  \/ spinWheel
  \/ \E i \in 1..Len(spins) : SpinCommit(i)
  \/ \E i \in 1..Len(spins) : SpinDigestFails(i)
  \/ \E i \in 1..Len(spins) : SpinWalletAnswer(i)
  \/ \E i \in 1..Len(spins) : SpinCommitReturns(i)
  \/ \E i \in 1..Len(spins) : SpinSubmitFails(i)
  \/ \E i \in 1..Len(spins) : SpinReveal(i)
  \/ \E i \in 1..Len(spins) : SpinRevealReturns(i)
  \/ \E i \in 1..Len(spins) : AnimationTimer(i)

SpecSpin == Init /\ [][NextSpin]_vars

\* What is pending for spin i settles: the digest, a signing request, a
\* submission, the 2 s timer, the 10 s timer
SpinProceeds(i) ==
  /\ i \in 1..Len(spins)
  /\ \/ SpinCommit(i)
     \/ SpinDigestFails(i)
     \/ SpinWalletAnswer(i)
     \/ SpinCommitReturns(i)
     \/ SpinSubmitFails(i)
     \/ SpinReveal(i)
     \/ SpinRevealReturns(i)
     \/ AnimationTimer(i)

\* SpecSpin where no promise and no timer of a spin stays pending for ever
SpecSpinFair ==
  SpecSpin /\ \A i \in 1..MaxSpins : WF_vars(SpinProceeds(i))

NextRead ==
  \/ ProbeAnswer
  \/ Render
  \/ CheckWheelStateAnswer
  \/ connectWallet
  \/ \E i \in 1..Len(connects) : GetAddressAnswer(i)
  \/ initializeWheel
  \/ \E i \in 1..Len(inits) : InitBuild(i)
  \/ \E i \in 1..Len(inits) : InitWalletAnswer(i)
  \/ \E i \in 1..Len(inits) : InitSubmitReturns(i)
  \/ \E i \in 1..Len(inits) : InitRpcFails(i)
  \/ \E i \in 1..Len(inits) : InitStatusReturns(i)
  \/ \E i \in 1..Len(inits) : InitCheckAnswer(i)

SpecRead == Init /\ [][NextRead]_vars

\* ------------------------------------------- the rendered page (part_001)
\* What the JSX shows for a rendered state: the Connect Wallet button while
\* there is no wallet address; the Initialize Wheel button for a connected
\* admin while the wheel is not initialized; the Spin Wheel button, enabled
\* while the wheel is not spinning, once the wheel is initialized
ConnectButtonShown(r) == r.walletAddress = ""

InitializeButtonShown(r) ==
  /\ r.walletAddress # ""
  /\ ~r.isInitialized
  /\ r.isAdmin

SpinButtonShown(r) ==
  /\ r.walletAddress # ""
  /\ r.isInitialized
  /\ ~r.wheelState.isSpinning

\* onClick={connectWallet}
ClickConnect ==
  /\ ConnectButtonShown(rendered)
  /\ nConnects < MaxClicks
  /\ nConnects' = nConnects + 1
  /\ connects' = Append(connects,
       [pc |-> "getAddress", sdk |-> rendered.sdk,
        publicKey |-> rendered.publicKey])
  /\ UNCHANGED <<reactState, rendered, probe, codec, wheelRead, checks, spins,
                 inits, nInits, animTimers, rng, faults>>

\* onClick={spinWheel}
ClickSpin == SpinButtonShown(rendered) /\ spinWheel

\* The page as a user drives it: the buttons that are shown are clicked.
\* The Initialize Wheel button and the account read of checkAdminStatus
\* are not among the steps: connectWallet is clicked only where the
\* rendered publicKey is null, so that checkAdminStatus returns false
\* before its read and isAdmin stays false.
NextPage ==
  \/ ProbeAnswer
  \/ Render
  \/ CheckWheelStateAnswer
  \/ ClickConnect
  \/ \E i \in 1..Len(connects) : GetAddressAnswer(i)
  \/ ClickSpin
  \/ \E i \in 1..Len(spins) : SpinCommit(i)
  \/ \E i \in 1..Len(spins) : SpinDigestFails(i)
  \/ \E i \in 1..Len(spins) : SpinWalletAnswer(i)
  \/ \E i \in 1..Len(spins) : SpinCommitReturns(i)
  \/ \E i \in 1..Len(spins) : SpinSubmitFails(i)
  \/ \E i \in 1..Len(spins) : SpinReveal(i)
  \/ \E i \in 1..Len(spins) : SpinRevealReturns(i)
  \/ \E i \in 1..Len(spins) : AnimationTimer(i)

SpecPage == Init /\ [][NextPage]_vars

\* -------------------------------------------------------------- properties
SpinIds == 1..Len(spins)

InitIds == 1..Len(inits)

\* the discriminant of the one instruction a submitted transaction carries
TxTag(tx) == tx.message.instructions[1].data[1]

\* how many transactions with a discriminant an invocation has submitted
Submitted(s, tag) ==
  Cardinality({k \in 1..Len(s.sent) : TxTag(s.sent[k]) = tag})

\* the invocation has entered its reveal step
RevealStarted(s) ==
  \/ s.revealInstruction # NoInstruction
  \/ Len(s.reqs) > 1
  \/ Submitted(s, RevealSpinTag) > 0

\* C1: at most one spin is in flight.  Of the invocations of spinWheel that
\* passed the guard, never more than one is neither failed nor finished
\* (its reveal returned and its animation timer fired); so no commit
\* instruction is built for a second spin while a first one is in flight.
C1_OneSpinInFlight ==
  Cardinality({i \in SpinIds : InFlight(spins[i]) \/ i \in animTimers}) <= 1

\* a spin is in flight with its commit built, a further invocation would
\* still be within the bound, and the guard of the current render rejects it
C1_Witness ==
  /\ Len(spins) < MaxSpins
  /\ rendered = Snapshot
  /\ ~SpinGuard(rendered)
  /\ \E i \in SpinIds : /\ InFlight(spins[i])
                        /\ spins[i].commitInstruction # NoInstruction

\* C2: a spin enters its reveal step (builds the reveal instruction, asks
\* for its signature, submits it) only after the commit transaction of the
\* same spin was submitted, that submission returned, and the delay that
\* follows it elapsed.
C2_RevealAfterCommit ==
  \A i \in SpinIds :
    RevealStarted(spins[i]) =>
      /\ spins[i].commitReturned
      /\ spins[i].delayElapsed
      /\ Len(spins[i].sent) >= 1
      /\ spins[i].sent[1].message.instructions[1] = spins[i].commitInstruction
      /\ TxTag(spins[i].sent[1]) = CommitSpinTag

\* the reveal transaction of a spin has been submitted
C2_Witness ==
  \E i \in SpinIds : Submitted(spins[i], RevealSpinTag) = 1

\* C3: when the wallet cancels the commit signing request, the spin is
\* failed at once: it has submitted no transaction, built no reveal
\* instruction, made no second signing request and set no prize.
C3_CancelAtCommit ==
  \A i \in SpinIds :
    spins[i].commitAnswer = "cancel" =>
      /\ spins[i].pc = "failed"
      /\ spins[i].failedAt = "commitSign"
      /\ spins[i].sent = <<>>
      /\ spins[i].revealInstruction = NoInstruction
      /\ Len(spins[i].reqs) = 1
      /\ ~spins[i].prizeSet

C3_Witness ==
  \E i \in SpinIds : spins[i].commitAnswer = "cancel"

\* C4: once the latest spin has failed, at whichever step, isSpinning is
\* false, and as soon as that state is rendered the guard of spinWheel
\* accepts a new request.
C4_FailureReenables ==
  \A i \in SpinIds :
    (i = Len(spins) /\ spins[i].pc = "failed") =>
      /\ ~wheelState.isSpinning
      /\ (rendered.wheelState = wheelState => SpinGuard(rendered))

\* a spin failed when its reveal submission was rejected, and the next
\* request was accepted
C4_Witness ==
  /\ Len(spins) >= 2
  /\ spins[1].pc = "failed"
  /\ spins[1].failedAt = "revealSubmit"

\* C5: one spin submits at most one commit transaction and at most one
\* reveal transaction, and nothing else, also when a submission is rejected.
C5_NoRetry ==
  \A i \in SpinIds :
    /\ Submitted(spins[i], CommitSpinTag) <= 1
    /\ Submitted(spins[i], RevealSpinTag) <= 1
    /\ Len(spins[i].sent) <= 2

\* a commit submission was rejected and the spin ended with that one
\* submission
C5_Witness ==
  \E i \in SpinIds :
    /\ spins[i].pc = "failed"
    /\ spins[i].failedAt = "commitSubmit"
    /\ Len(spins[i].sent) = 1

\* C6: two spins of a session never carry the same commitment in their
\* commit instructions, nor draw the same secret.
C6_FreshCommitment ==
  \A i, j \in SpinIds :
    (i < j /\ spins[i].commitInstruction # NoInstruction
           /\ spins[j].commitInstruction # NoInstruction) =>
      /\ spins[i].commitInstruction.data # spins[j].commitInstruction.data
      /\ spins[i].userSecret # spins[j].userSecret

\* a spin failed and the spin after it has built its commit instruction
C6_Witness ==
  /\ Len(spins) >= 2
  /\ spins[1].pc = "failed"
  /\ spins[2].commitInstruction # NoInstruction

\* C7: the data of every commit instruction built, and of every commit
\* transaction submitted, is 33 bytes: the byte 1, then the 32 bytes of the
\* SHA-256 digest of the secret of that spin.
C7_CommitLayout ==
  \A i \in SpinIds :
    LET d == spins[i].commitInstruction.data
    IN  spins[i].commitInstruction # NoInstruction =>
          /\ Len(d) = 33
          /\ d[1] = 1
          /\ SubSeq(d, 2, 33) = Sha256(spins[i].userSecret)
          /\ Len(spins[i].userSecret) = 32
          /\ \A k \in 1..Len(spins[i].sent) :
               k = 1 => spins[i].sent[k].message.instructions[1].data = d

C7_Witness ==
  \E i \in SpinIds :
    /\ Len(spins[i].sent) >= 1
    /\ spins[i].sent[1].message.instructions[1].data
         = <<1>> \o Sha256(spins[i].userSecret)

\* C8: the data of every reveal instruction built, and of every reveal
\* transaction submitted, is 33 bytes: the byte 2, then the 32 bytes of the
\* secret whose digest the commit instruction of the same spin carried.
C8_RevealLayout ==
  \A i \in SpinIds :
    LET d == spins[i].revealInstruction.data
        c == spins[i].commitInstruction.data
    IN  spins[i].revealInstruction # NoInstruction =>
          /\ Len(d) = 33
          /\ d[1] = 2
          /\ SubSeq(d, 2, 33) = spins[i].userSecret
          /\ Sha256(SubSeq(d, 2, 33)) = SubSeq(c, 2, Len(c))
          /\ \A k \in 1..Len(spins[i].sent) :
               k = 2 => spins[i].sent[k].message.instructions[1].data = d

C8_Witness ==
  \E i \in SpinIds :
    /\ Len(spins[i].sent) = 2
    /\ spins[i].sent[2].message.instructions[1].data
         = <<2>> \o spins[i].userSecret

\* C9: every commit instruction built has the accounts [user key (signer,
\* read-only), wheel state (no signer, writable)]; every reveal instruction
\* these two followed by [recent blockhashes, slot info] (no signers,
\* read-only); every initialize instruction [wheel state (no signer,
\* writable), authority (signer, writable)]; in that order, on every build.
C9_AccountLists ==
  LET wheel  == FromHex(VITE_WHEEL_STATE_ACCOUNT)
      hashes == FromHex(VITE_RECENT_BLOCKHASHES)
      slot   == FromHex(VITE_SLOT_INFO)
      acc(k, sg, wr) == [pubkey |-> k, is_signer |-> sg, is_writable |-> wr]
  IN  /\ \A i \in SpinIds :
           LET user == FromHex(spins[i].publicKey)
           IN  /\ spins[i].commitInstruction # NoInstruction =>
                    spins[i].commitInstruction.accounts
                      = <<acc(user, TRUE, FALSE), acc(wheel, FALSE, TRUE)>>
               /\ spins[i].revealInstruction # NoInstruction =>
                    spins[i].revealInstruction.accounts
                      = <<acc(user, TRUE, FALSE), acc(wheel, FALSE, TRUE),
                          acc(hashes, FALSE, FALSE), acc(slot, FALSE, FALSE)>>
      /\ \A i \in InitIds :
           inits[i].instruction # NoInstruction =>
             inits[i].instruction.accounts
               = <<acc(wheel, FALSE, TRUE),
                   acc(FromHex(inits[i].publicKey), TRUE, TRUE)>>

\* instructions of all three kinds have been built, the commit twice
C9_Witness ==
  /\ \E i \in InitIds : inits[i].instruction # NoInstruction
  /\ \E i \in SpinIds : spins[i].revealInstruction # NoInstruction
  /\ \E i, j \in SpinIds : /\ i < j
                           /\ spins[j].commitInstruction # NoInstruction

\* the accounts marked is_signer in the instructions of a transaction are
\* all among its message's signers
SignersCover(tx) ==
  \A n \in 1..Len(tx.message.instructions) :
    \A a \in 1..Len(tx.message.instructions[n].accounts) :
      tx.message.instructions[n].accounts[a].is_signer =>
        \E g \in 1..Len(tx.message.signers) :
          tx.message.signers[g] = tx.message.instructions[n].accounts[a].pubkey

\* C10: in every transaction submitted by spinWheel (commit, reveal) and by
\* initializeWheel, each account marked is_signer is in the message's
\* signers.
C10_SignersCovered ==
  /\ \A i \in SpinIds : \A k \in 1..Len(spins[i].sent) : SignersCover(spins[i].sent[k])
  /\ \A i \in InitIds : \A k \in 1..Len(inits[i].sent) : SignersCover(inits[i].sent[k])

\* an initialize, a commit and a reveal transaction have been submitted
C10_Witness ==
  /\ \E i \in InitIds : Len(inits[i].sent) = 1
  /\ \E i \in SpinIds : Len(spins[i].sent) = 2

\* a transaction has one signature for each signer, each of 64 bytes
SignaturesWellFormed(tx) ==
  /\ Len(tx.signatures) = Len(tx.message.signers)
  /\ \A g \in 1..Len(tx.signatures) : Len(tx.signatures[g]) = 64

\* C11: every transaction that spinWheel or initializeWheel hands to the
\* endpoint through sendTransaction carries exactly one signature for each
\* signer, and that signature is 64 bytes long, whatever response the
\* wallet gave.
C11_SignatureLength ==
  /\ \A i \in SpinIds : \A k \in 1..Len(spins[i].sent) :
       SignaturesWellFormed(spins[i].sent[k])
  /\ \A i \in InitIds : \A k \in 1..Len(inits[i].sent) :
       SignaturesWellFormed(inits[i].sent[k])

\* the signature of the k-th transaction of an invocation is the decoded
\* k-th response without its first two bytes, when that response decodes
\* to 66 bytes
StripsPrefix(rec) ==
  \A k \in 1..Len(rec.sent) :
    LET decoded == Base64Decode(rec.responses[k])
    IN  Len(decoded) = 66 =>
          /\ Len(rec.sent[k].signatures[1]) = 64
          /\ \A j \in 1..64 : rec.sent[k].signatures[1][j] = decoded[j + 2]

\* C12: for a wallet response that decodes to a 2-byte prefix followed by
\* 64 bytes, the signature put into the transaction is exactly those 64
\* bytes, in order.
C12_PrefixStripped ==
  \A i \in SpinIds : StripsPrefix(spins[i])

\* a commit transaction was built from a prefixed response and carries the
\* 64 bytes the wallet signed
C12_Witness ==
  \E i \in SpinIds :
    /\ Len(spins[i].sent) >= 1
    /\ Base64Decode(spins[i].responses[1])
         = <<2, 0>> \o WalletSignature(spins[i].reqs[1])
    /\ spins[i].sent[1].signatures[1] = WalletSignature(spins[i].reqs[1])

\* a response that decodes to a 2-byte prefix and a 64-byte signature
WellFormedResponse(response) ==
  response # <<>> /\ Len(Base64Decode(response)) = 66

\* C13: when the wallet hands over an empty or malformed response, or calls
\* neither callback, sendTransaction throws to its caller and the request's
\* transaction is not submitted.
C13_MalformedRejected ==
  /\ \A i \in SpinIds :
       /\ \A k \in 1..Len(spins[i].responses) :
            ~WellFormedResponse(spins[i].responses[k]) =>
              (Len(spins[i].sent) < k /\ spins[i].pc = "failed")
       /\ spins[i].commitAnswer = "silent" =>
            (spins[i].sent = <<>> /\ spins[i].pc = "failed")
       /\ spins[i].revealAnswer = "silent" =>
            (Len(spins[i].sent) = 1 /\ spins[i].pc = "failed")
  /\ \A i \in InitIds :
       \A k \in 1..Len(inits[i].responses) :
         ~WellFormedResponse(inits[i].responses[k]) => Len(inits[i].sent) < k

\* what the wallet was asked to sign for the k-th transaction of an
\* invocation is the hex of the hash of the message that transaction
\* carries, and that message is the caller's key and the one instruction
SignedWhatWasSent(rec, k, instruction) ==
  /\ rec.reqs[k].message = ToHex(MessageHash(rec.sent[k].message))
  /\ Len(rec.reqs[k].message) = 64
  /\ rec.reqs[k].address = rec.walletAddress
  /\ rec.sent[k].message.signers = <<FromHex(rec.publicKey)>>
  /\ rec.sent[k].message.instructions = <<instruction>>

\* C14: for every transaction submitted through sendTransaction, the value
\* the wallet was given to sign is the hex encoding of the hash of exactly
\* the message the transaction carries (the signer and the instruction the
\* caller built); the message is the same at hashing and at submission.
C14_SignsMessageHash ==
  /\ \A i \in SpinIds :
       /\ Len(spins[i].sent) >= 1 =>
            SignedWhatWasSent(spins[i], 1, spins[i].commitInstruction)
       /\ Len(spins[i].sent) >= 2 =>
            SignedWhatWasSent(spins[i], 2, spins[i].revealInstruction)
  /\ \A i \in InitIds :
       Len(inits[i].sent) >= 1 =>
         SignedWhatWasSent(inits[i], 1, inits[i].instruction)

\* a reveal and an initialize transaction were submitted, each signed over
\* a hash of its own
C14_Witness ==
  /\ \E i \in InitIds : Len(inits[i].sent) = 1 /\ Len(inits[i].reqs) = 1
  /\ \E i \in SpinIds : /\ Len(spins[i].sent) = 2
                        /\ spins[i].reqs[1].message # spins[i].reqs[2].message

\* ------------- the inline-signing App (src/unnamed/part_001, lines 443-722)
\* This App has the state sdk, walletAddress, publicKey and wheelState, the
\* same probe, and the same guard and first steps of spinWheel; it has no
\* effect, no admin check and no initializeWheel, and it signs inside
\* spinWheel.

\* both instructions name the user key alone
InlineAccounts(key) == << Account(FromHex(key), TRUE, FALSE) >>

InlineCommitInstruction(key, commitment) ==
  [program_id |-> FromHex(VITE_PROGRAM_ID),
   accounts   |-> InlineAccounts(key),
   data       |-> CommitData(commitment)]

InlineRevealInstruction(key, userSecret) ==
  [program_id |-> FromHex(VITE_PROGRAM_ID),
   accounts   |-> InlineAccounts(key),
   data       |-> RevealData(userSecret)]

\* message: 'Reveal wheel spin'
RevealLiteral ==
  <<82, 101, 118, 101, 97, 108, 32, 119, 104, 101, 101, 108, 32, 115, 112,
    105, 110>>

InlineRevealPayload(address) ==
  [message |-> RevealLiteral, address |-> address]

\* onFinish of the reveal: Uint8Array.from(Buffer.from(response, 'base64'))
InlineRevealSignature(response) == Base64Decode(response)

\* the commit part has no check of commitSignature after signMessage: only
\* a callback that throws ends it
InlineCommitThrows(answer) ==
  \/ answer.kind = "cancel"
  \/ answer.kind = "finish" /\ answer.response = <<>>

\* a render of the inline App: there is no effect to run
InlineRender ==
  /\ rendered # Snapshot
  /\ rendered' = Snapshot
  /\ UNCHANGED <<reactState, probe, codec, wheelRead, connects, checks, spins,
                 inits, animTimers, counters>>

\* getAddress settles in the inline App: nothing follows it
InlineGetAddressAnswer(i) ==
  /\ connects[i].pc = "getAddress"
  /\ connects' = RemoveAt(connects, i)
  /\ \/ \E w \in Wallets : /\ walletAddress' = w.address
                           /\ publicKey' = w.publicKey
     \/ UNCHANGED <<walletAddress, publicKey>>
  /\ UNCHANGED <<sdk, isAdmin, isInitialized, wheelState, rendered, probe,
                 codec, wheelRead, checks, spins, inits, animTimers,
                 counters>>

\* The digest resolves: the commit instruction and its message are built
\* and the wallet is asked to sign the hash of the message
InlineCommit(i) ==
  /\ spins[i].pc = "digest"
  /\ LET commitment == Sha256(spins[i].userSecret)
         instruction == InlineCommitInstruction(spins[i].publicKey, commitment)
         payload == SignPayload(spins[i].walletAddress,
                                MessageObj(spins[i].publicKey, instruction))
     IN  spins' = [spins EXCEPT ![i].pc = "commitSign",
                                ![i].commitment = commitment,
                                ![i].commitInstruction = instruction,
                                ![i].reqs = Append(@, payload)]
  /\ UNCHANGED <<reactState, rendered, probe, codec, wheelRead, connects,
                 checks, inits, animTimers, counters>>

\* The wallet settles the commit request: a throwing callback runs the
\* catch; otherwise commitTx is built with commitSignature, which is the
\* response without its first two bytes, or still null, and is submitted
InlineCommitAnswer(i) ==
  /\ spins[i].pc = "commitSign"
  /\ LET payload == spins[i].reqs[Len(spins[i].reqs)]
         good == GoodAnswer(payload)
         messageObj == MessageObj(spins[i].publicKey, spins[i].commitInstruction)
     IN  \E a \in WalletAnswers(payload) :
           /\ faults' = IF a = good THEN faults ELSE faults + 1
           /\ LET s == [spins[i] EXCEPT !.responses = Heard(@, a),
                                        !.commitAnswer = a.kind]
              IN  IF InlineCommitThrows(a)
                    THEN /\ spins' = [spins EXCEPT
                                        ![i] = [s EXCEPT !.pc = "failed",
                                                         !.failedAt = "commitSign"]]
                         /\ wheelState' = OnSpinError(wheelState)
                    ELSE /\ spins' = [spins EXCEPT
                                        ![i] = [s EXCEPT
                                          !.pc = "commitSubmit",
                                          !.sent = Submit(@, BuildTx(messageObj, a))]]
                         /\ UNCHANGED wheelState
  /\ UNCHANGED <<sdk, walletAddress, publicKey, isAdmin, isInitialized,
                 rendered, probe, codec, wheelRead, connects, nConnects,
                 checks, inits, nInits, animTimers, rng>>

\* The 2 s timer fires: the wallet is asked to sign the literal text
InlineReveal(i) ==
  /\ spins[i].pc = "commitWait"
  /\ spins' = [spins EXCEPT
                 ![i].pc = "revealSign",
                 ![i].delayElapsed = TRUE,
                 ![i].reqs = Append(@, InlineRevealPayload(spins[i].walletAddress))]
  /\ UNCHANGED <<reactState, rendered, probe, codec, wheelRead, connects,
                 checks, inits, animTimers, counters>>

\* The wallet settles the reveal request: a throwing callback or a
\* revealSignature still null runs the catch; otherwise the reveal
\* instruction and revealTx are built, with the decoded response as the
\* signature, and revealTx is submitted
InlineRevealAnswer(i) ==
  /\ spins[i].pc = "revealSign"
  /\ LET payload == spins[i].reqs[Len(spins[i].reqs)]
         good == GoodAnswer(payload)
         instruction == InlineRevealInstruction(spins[i].publicKey,
                                                spins[i].userSecret)
     IN  \E a \in WalletAnswers(payload) :
           /\ faults' = IF a = good THEN faults ELSE faults + 1
           /\ LET s == [spins[i] EXCEPT !.responses = Heard(@, a),
                                        !.revealAnswer = a.kind]
              IN  IF SigningThrows(a)
                    THEN /\ spins' = [spins EXCEPT
                                        ![i] = [s EXCEPT !.pc = "failed",
                                                         !.failedAt = "revealSign"]]
                         /\ wheelState' = OnSpinError(wheelState)
                    ELSE /\ spins' = [spins EXCEPT
                                        ![i] = [s EXCEPT
                                          !.pc = "revealSubmit",
                                          !.revealInstruction = instruction,
                                          !.sent = Submit(@,
                                            [version    |-> 0,
                                             signatures |-> <<InlineRevealSignature(a.response)>>,
                                             message    |-> MessageObj(spins[i].publicKey,
                                                                       instruction)])]]
                         /\ UNCHANGED wheelState
  /\ UNCHANGED <<sdk, walletAddress, publicKey, isAdmin, isInitialized,
                 rendered, probe, codec, wheelRead, connects, nConnects,
                 checks, inits, nInits, animTimers, rng>>

NextInline ==
  \/ ProbeAnswer
  \/ InlineRender
  \/ connectWallet
  \/ \E i \in 1..Len(connects) : InlineGetAddressAnswer(i)
  \/ spinWheel
  \/ \E i \in 1..Len(spins) : InlineCommit(i)
  \/ \E i \in 1..Len(spins) : SpinDigestFails(i)
  \/ \E i \in 1..Len(spins) : InlineCommitAnswer(i)
  \/ \E i \in 1..Len(spins) : SpinCommitReturns(i)
  \/ \E i \in 1..Len(spins) : SpinSubmitFails(i)
  \/ \E i \in 1..Len(spins) : InlineReveal(i)
  \/ \E i \in 1..Len(spins) : InlineRevealAnswer(i)
  \/ \E i \in 1..Len(spins) : SpinRevealReturns(i)
  \/ \E i \in 1..Len(spins) : AnimationTimer(i)

SpecInline == Init /\ [][NextInline]_vars

\* C15: within a spin, the signature of the commit transaction and the
\* signature of the reveal transaction are both the wallet's response with
\* its 2-byte prefix removed; never one stripped and the other as it came.
C15_ConsistentStripping ==
  \A i \in SpinIds :
    (Len(spins[i].sent) = 2 /\ Len(spins[i].responses) = 2) =>
      /\ spins[i].sent[1].signatures[1]
           = SliceFrom(Base64Decode(spins[i].responses[1]), 2)
      /\ spins[i].sent[2].signatures[1]
           = SliceFrom(Base64Decode(spins[i].responses[2]), 2)

\* C16: checkWheelState reports isInitialized = false when the account read
\* fails, when there is no account, when its data is empty and when its
\* data cannot be decoded; isInitialized is true only after a read whose
\* data decodes and whose initialized flag is set.  isInitialized is what
\* the latest checkWheelState made of its read.
C16_ReaderTolerant ==
  /\ wheelRead.kind \in {"none", "throw", "null"} => ~isInitialized
  /\ (wheelRead.kind = "data" /\ wheelRead.data = <<>>) => ~isInitialized
  /\ (wheelRead.kind = "data" /\ ~DeserializeWheelState(wheelRead.data).ok)
       => ~isInitialized
  /\ isInitialized =>
       /\ wheelRead.kind = "data"
       /\ Len(wheelRead.data) >= 9
       /\ wheelRead.data[1] > 0
       /\ DeserializeWheelState(wheelRead.data).ok

\* checkWheelState has read account data that decodes under its schema with
\* the flag set, and has reported the wheel initialized
C16_Witness ==
  /\ wheelRead.kind = "data"
  /\ wheelRead.data = ClientLayout(1)
  /\ isInitialized

\* C17: for account data laid out as the initialized flag, the 32-byte
\* authority, the prizes and the probabilities, checkWheelState reports
\* isInitialized equal to the flag.
C17_ReadsWheelStateLayout ==
  \A flag \in {0, 1} :
    (wheelRead.kind = "data" /\ wheelRead.data = AuthorityLayout(flag)) =>
      (isInitialized <=> flag = 1)

\* ------------------------- the InitializeWheel encoding on its own inputs
\* instructionData of initializeWheel as a function of prizes and
\* probabilities, over lists of up to MaxPrizes elements
SeqsUpTo(S, n) == UNION {[1..k -> S] : k \in 0..n}

\* prizes: the empty string, 'Lo', 'Pub'
PrizePool == {<<>>, <<76, 111>>, <<80, 117, 98>>}

ProbabilityPool == {0, 50, 100, 255, 256}

CodecInputs ==
  {[NoCodec EXCEPT !.pc = "input", !.prizes = p, !.probabilities = q] :
     p \in SeqsUpTo(PrizePool, MaxPrizes),
     q \in SeqsUpTo(ProbabilityPool, MaxPrizes)}

InitCodec == InitApp /\ codec \in CodecInputs

\* Buffer.concat([new Uint8Array([0]), borsh.serialize(schema, {prizes,
\* probabilities: new Uint8Array(probabilities)})]): nothing in it throws
\* for lists of strings and of numbers
CodecEncode ==
  /\ codec.pc = "input"
  /\ codec' = [codec EXCEPT !.pc = "encoded",
                            !.data = InitData(codec.prizes, codec.probabilities)]
  /\ UNCHANGED <<reactState, rendered, probe, wheelRead, connects, checks,
                 spins, inits, animTimers, counters>>

\* the payload after the discriminant byte is decoded with the same schema
CodecDecode ==
  /\ codec.pc = "encoded"
  /\ codec' = [codec EXCEPT !.pc = "decoded",
                            !.decoded = DecodeInit(SliceFrom(codec.data, 1))]
  /\ UNCHANGED <<reactState, rendered, probe, wheelRead, connects, checks,
                 spins, inits, animTimers, counters>>

NextCodec == CodecEncode \/ CodecDecode

SpecCodec == InitCodec /\ [][NextCodec]_vars

\* prizes and probabilities of equal length, the probabilities summing to 100
ValidInit(p, q) == Len(p) = Len(q) /\ SumBytes(q) = 100

\* C18: for prizes and probabilities of equal length with the probabilities
\* summing to 100, the instruction data is the byte 0, the length-prefixed
\* string array and the length-prefixed byte array, and decoding what
\* follows the first byte gives back the same prizes and probabilities.
C18_InitRoundTrip ==
  (codec.pc \in {"encoded", "decoded"}
     /\ ValidInit(codec.prizes, codec.probabilities)) =>
    LET n == Len(codec.prizes)
        strings == Flatten([i \in 1..n |->
                      U32LE(Len(codec.prizes[i])) \o codec.prizes[i]])
    IN  /\ codec.data = <<0>> \o U32LE(n) \o strings
                              \o U32LE(n) \o codec.probabilities
        /\ codec.pc = "decoded" =>
             /\ codec.decoded.ok
             /\ codec.decoded.prizes = codec.prizes
             /\ codec.decoded.probabilities = codec.probabilities

\* two prizes with the probabilities 50 and 50 went through the encoding
\* and back
C18_Witness ==
  /\ codec.pc = "decoded"
  /\ codec.prizes = << <<80, 117, 98>>, <<76, 111>> >>
  /\ codec.probabilities = <<50, 50>>
  /\ codec.decoded.prizes = codec.prizes

\* a probability that does not fit a byte, or lists of different lengths
InvalidInit(p, q) ==
  \/ \E i \in 1..Len(q) : q[i] > 255
  \/ Len(p) # Len(q)

WellFormedInitData(data) ==
  LET decoded == DecodeInit(SliceFrom(data, 1))
  IN  /\ data[1] = InitializeWheelTag
      /\ decoded.ok
      /\ Len(decoded.probabilities) = Len(decoded.prizes)
      /\ \A k \in 1..Len(decoded.probabilities) :
           decoded.probabilities[k] \in 0..255
      /\ SumBytes(decoded.probabilities) = 100

\* C20: every InitializeWheel instruction that initializeWheel builds, and
\* every one it hands to the endpoint, carries as many probabilities as
\* prizes, each a u8, summing to exactly 100.
C20_InitProbabilities ==
  \A i \in InitIds :
    /\ inits[i].instruction # NoInstruction =>
         WellFormedInitData(inits[i].instruction.data)
    /\ \A k \in 1..Len(inits[i].sent) :
         WellFormedInitData(inits[i].sent[k].message.instructions[1].data)

\* initializeWheel has handed its transaction to the endpoint
C20_Witness ==
  \E i \in InitIds :
    /\ inits[i].instruction # NoInstruction
    /\ Len(inits[i].sent) = 1
    /\ Len(DecodeInit(SliceFrom(inits[i].instruction.data, 1)).prizes)
         = Len(wheelData)

C22_OutcomeAfterReveal ==
  /\ \A i \in SpinIds :
       /\ spins[i].prizeSet =>
            /\ spins[i].pc = "resolved"
            /\ spins[i].revealAnswer = "finish"
            /\ Submitted(spins[i], CommitSpinTag) = 1
            /\ Submitted(spins[i], RevealSpinTag) = 1
       /\ spins[i].failedAt # "" => ~spins[i].prizeSet
  /\ (wheelState.currentPrize # <<>> \/ wheelState.prizeNumber # 0) =>
       \E i \in SpinIds : spins[i].prizeSet

\* a spin whose reveal submission returned has set the second prize
C22_Witness ==
  \E i \in SpinIds :
    /\ spins[i].prizeSet
    /\ Submitted(spins[i], RevealSpinTag) = 1
    /\ wheelState.prizeNumber = 1
    /\ wheelState.currentPrize = wheelData[2]

\* the public key stored as the authority in the wheel-state account
AuthorityKey == HexKey(5)

\* C23: a step in which connectWallet ends, with the SDK ready when it was
\* called, and which has stored the authority's public key as the
\* connected one, leaves isAdmin true.
C23_AdminAfterConnect ==
  [][\A i \in 1..Len(connects) :
       (/\ connects' = RemoveAt(connects, i)
        /\ connects[i].sdk # "null"
        /\ publicKey # AuthorityKey
        /\ publicKey' = AuthorityKey) => isAdmin']_vars

\* the values an invocation captured: an SDK handle, an address, a key
CapturedReady(rec) ==
  /\ rec.sdk # "null"
  /\ rec.walletAddress # ""
  /\ rec.publicKey # <<>>

\* C24: every invocation of spinWheel or initializeWheel that got past its
\* guard, and so every signing request and every submission, was made with
\* the SDK handle set, which happens only when the readiness probe has
\* answered true, and with a wallet address and a public key connected.
C24_ReadyBeforeRequests ==
  /\ \A i \in SpinIds : CapturedReady(spins[i])
  /\ \A i \in InitIds : CapturedReady(inits[i])
  /\ (spins # <<>> \/ inits # <<>> \/ nInits > 0) =>
       /\ probe = "done"
       /\ sdk = "arch"
       /\ walletAddress # ""
       /\ publicKey # <<>>
  /\ sdk # "null" => probe = "done"

\* spinWheel and initializeWheel have both submitted a transaction
C24_Witness ==
  /\ \E i \in SpinIds : Len(spins[i].sent) > 0
  /\ \E i \in InitIds : Len(inits[i].sent) > 0
  /\ probe = "done"

\* C25: when every signing request and every submission settles and the
\* timers fire, isSpinning, once set by an accepted spin, is false again
\* later.
C25_SpinningEnds == wheelState.isSpinning ~> ~wheelState.isSpinning

\* one spin has failed and another has resolved and had its timer fire, and
\* isSpinning is false
C25_Witness ==
  /\ ~wheelState.isSpinning
  /\ \E i \in SpinIds : spins[i].failedAt # ""
  /\ \E i \in SpinIds : spins[i].pc = "resolved" /\ i \notin animTimers

\* C26: prizeNumber is an index of the prize list; currentPrize is null
\* (with prizeNumber still at its initial 0) or the option of the prize at
\* index prizeNumber.
C26_OutcomeConsistent ==
  /\ wheelState.prizeNumber \in 0..(Len(wheelData) - 1)
  /\ \/ wheelState.currentPrize = <<>> /\ wheelState.prizeNumber = 0
     \/ wheelState.currentPrize = wheelData[wheelState.prizeNumber + 1]

\* a resolved spin has drawn the last prize of the list
C26_Witness ==
  /\ wheelState.prizeNumber = Len(wheelData) - 1
  /\ wheelState.currentPrize = wheelData[Len(wheelData)]
  /\ \E i \in SpinIds : spins[i].prizeSet

\* prizeNumber and currentPrize are the same before and after the step
OutcomeKept ==
  /\ wheelState'.prizeNumber = wheelState.prizeNumber
  /\ wheelState'.currentPrize = wheelState.currentPrize

\* C27: the step that requests a spin, and every step taken while a spin
\* is in flight that does not resolve it, the step of its failure
\* included, leaves prizeNumber and currentPrize as they were; so a spin
\* that fails has changed nothing but isSpinning.
C27_FailureKeepsOutcome ==
  [][/\ Len(spins') > Len(spins) => OutcomeKept
     /\ \A i \in SpinIds :
          (InFlight(spins[i]) /\ ~spins'[i].prizeSet) => OutcomeKept
     /\ \A i \in SpinIds :
          (InFlight(spins[i]) /\ spins'[i].failedAt # "") =>
            /\ OutcomeKept
            /\ ~wheelState'.isSpinning]_vars

\* a spin has failed after an earlier one had set an outcome, which is
\* still there
C27_Witness ==
  \E i, j \in SpinIds :
    /\ j < i
    /\ spins[j].prizeSet
    /\ spins[i].failedAt # ""
    /\ wheelState.prizeNumber = 1
    /\ wheelState.currentPrize = wheelData[2]
    /\ ~wheelState.isSpinning

\* C28: while an animation timer is pending it is the only one, it is the
\* timer of the latest spin, isSpinning is true in the state and on the
\* page, and no spin is in its commit or reveal step; so the timer's
\* firing clears isSpinning for the spin that armed it and for no other.
C28_TimerOwnsSpinning ==
  animTimers # {} =>
    /\ animTimers = {Len(spins)}
    /\ wheelState.isSpinning
    /\ rendered.wheelState.isSpinning
    /\ \A i \in SpinIds : ~InFlight(spins[i])

\* the timer of a second spin is pending
C28_Witness ==
  /\ Len(spins) = 2
  /\ animTimers = {2}
  /\ spins[2].pc = "resolved"
  /\ wheelState.isSpinning

\* C29: a spin is requested, its CommitSpin instruction is built, and a
\* CommitSpin or RevealSpin transaction is submitted only in a state where
\* isInitialized is true.
C29_SpinsOnlyWhenInitialized ==
  [][/\ Len(spins') > Len(spins) => isInitialized
     /\ \A i \in SpinIds :
          /\ spins'[i].commitInstruction # spins[i].commitInstruction =>
               isInitialized
          /\ Len(spins'[i].sent) > Len(spins[i].sent) => isInitialized]_vars

====
